---- MODULE Spec2Model ----
(***************************************************************************)
(* Model of the admin console's client-side logic:                         *)
(*   - the session store kept in localStorage (apiService.js),             *)
(*   - the react-admin authProvider (authProvider.js, lines 3-78),         *)
(*   - the HTTP wrapper fetchJson (apiService.js, lines 44-137),           *)
(*   - the react-admin dataProvider (authProvider.js, lines 206-359).      *)
(*                                                                         *)
(* Every network call is a suspend point of the single-threaded event      *)
(* loop: an operation that awaits a response is split into the step that   *)
(* issues the request and the step that runs when the response arrives.    *)
(***************************************************************************)
EXTENDS Integers, Sequences, FiniteSets, TLC

VARIABLES
    token,        \* localStorage entry 'token'         (NULL when absent)
    accountRole,  \* localStorage entry 'account_role'  (NULL when absent)
    calls,        \* authProvider calls, in the order they were invoked
    lastChange,   \* history: the call that wrote the session store last
    op,           \* the dataProvider operation in progress (or Idle)
    reqs,         \* the fetchJson requests issued by op, one per position
    qry,          \* the last query built for a list request (or NoQuery)
    handed,       \* the adapter error last handed to checkError, and its cause
    exp,          \* the call of exportCSV in progress (or NoExport)
    trip,         \* a create followed by a getOne, and the backend's records
    ui,           \* the bulk upload dialog, its requests included
    toolbar       \* the permissions the list toolbar holds, and its buttons

vars == <<token, accountRole, calls, lastChange, op, reqs, qry, handed, exp, trip, ui,
          toolbar>>

authVars == <<token, accountRole, calls, lastChange>>
dataVars == <<op, reqs>>
queryVars == <<qry>>
sessionVars == <<handed>>
exportVars == <<exp>>
tripVars == <<trip>>
uploadVars == <<ui>>
toolbarVars == <<toolbar>>

\* what the authProvider leaves alone, and what the dataProvider leaves alone
nonAuthVars == <<dataVars, queryVars, sessionVars, exportVars, tripVars, uploadVars,
      toolbarVars>>
nonDataVars == <<authVars, queryVars, sessionVars, exportVars, tripVars, uploadVars,
      toolbarVars>>
nonQueryVars == <<authVars, dataVars, sessionVars, exportVars, tripVars, uploadVars,
      toolbarVars>>
nonExportVars == <<authVars, dataVars, queryVars, sessionVars, tripVars, uploadVars,
      toolbarVars>>
nonUploadVars ==
    <<authVars, dataVars, queryVars, sessionVars, exportVars, tripVars,
      toolbarVars>>
nonToolbarVars ==
    <<authVars, dataVars, queryVars, sessionVars, exportVars, tripVars, uploadVars>>
nonTripVars == <<authVars, dataVars, queryVars, sessionVars, exportVars, uploadVars,
      toolbarVars>>

----------------------------------------------------------------------------
(* Bounds of the model *)

\* number of authProvider calls in one behaviour
MaxCalls == 3

\* longest ids sequence handed to getMany / updateMany / deleteMany
MaxIds == 2

----------------------------------------------------------------------------
(* JavaScript values *)

\* localStorage.getItem of a missing key, and JSON null
NULL == "<null>"

\* a missing property / an unset variable
UNDEFINED == "<undefined>"

\* error.status of an object that has no status property
NoStatus == -1

\* JavaScript truthiness of a string-or-null value
Truthy(v) == v # NULL /\ v # UNDEFINED /\ v # ""

\* a || b
Or(a, b) == IF Truthy(a) THEN a ELSE b

----------------------------------------------------------------------------
(* The backend's login contract: POST /auth/login -> {token, account_role} *)

Tokens == {"tok1", "tok2"}
Roles == {"admin", "corporate_admin", "end_user"}

----------------------------------------------------------------------------
(* Session store: apiService.js, lines 21-39 *)

getStoredAuth == [token |-> token, accountRole |-> accountRole]

\* setStoredAuth that forgets setItem('account_role', ...)
setStoredAuth_tokenOnly(t, r) == [token |-> t, accountRole |-> accountRole]

\* the store after setStoredAuth(t, r): two setItem calls
setStoredAuth(t, r) == [token |-> t, accountRole |-> r]

\* clearStoredAuth that forgets removeItem('token')
clearStoredAuth_keepsToken == [token |-> token, accountRole |-> NULL]

\* the store after clearStoredAuth(): two removeItem calls
clearStoredAuth == [token |-> NULL, accountRole |-> NULL]

Store(s) ==
    /\ token' = s.token
    /\ accountRole' = s.accountRole

----------------------------------------------------------------------------
(* authAPI.login: apiService.js, lines 147-162 *)

\* what the transport can answer to POST /auth/login: no response, a
\* non-success response, a success response whose body is not JSON, or the
\* success response of the contract
LoginResponse(kind, ok, isJson, t, r) ==
    [kind |-> kind, ok |-> ok, isJson |-> isJson, token |-> t, account_role |-> r]

LoginResponses ==
    { LoginResponse("network", FALSE, FALSE, UNDEFINED, UNDEFINED),
      LoginResponse("http", FALSE, FALSE, UNDEFINED, UNDEFINED),
      LoginResponse("http", TRUE, FALSE, UNDEFINED, UNDEFINED) }
    \cup {LoginResponse("http", TRUE, TRUE, t, r) : t \in Tokens, r \in Roles}

NoLoginData == [token |-> UNDEFINED, account_role |-> UNDEFINED]
NoError == [name |-> UNDEFINED, message |-> UNDEFINED]

\* outcome of authAPI.login for a transport answer: the data it returns or
\* the error it throws
authAPI_login(resp) ==
    IF resp.kind = "network"
    THEN \* await fetch(...) rejects
         [ok |-> FALSE, data |-> NoLoginData,
          error |-> [name |-> "TypeError", message |-> "Failed to fetch"]]
    ELSE IF ~resp.ok
    THEN [ok |-> FALSE, data |-> NoLoginData,
          error |-> [name |-> "Error", message |-> "Login failed"]]
    ELSE IF ~resp.isJson
    THEN \* await response.json() rejects
         [ok |-> FALSE, data |-> NoLoginData,
          error |-> [name |-> "SyntaxError", message |-> "Unexpected token"]]
    ELSE [ok |-> TRUE,
          data |-> [token |-> resp.token, account_role |-> resp.account_role],
          error |-> NoError]

----------------------------------------------------------------------------
(* authProvider: authProvider.js, lines 3-78 *)

NoPermissions ==
    [canCreate |-> FALSE, canEdit |-> FALSE, canDelete |-> FALSE,
     canExport |-> FALSE, canImport |-> FALSE]

NoIdentity == [id |-> UNDEFINED, fullName |-> UNDEFINED, role |-> UNDEFINED]

\* the record kept for one authProvider call
Call(o, st, status, api, before, after, error, perms, ident) ==
    [op |-> o, st |-> st, status |-> status, api |-> api,
     before |-> before, after |-> after, error |-> error,
     permissions |-> perms, identity |-> ident]

NoApi == [ok |-> FALSE, data |-> NoLoginData, error |-> NoError]

\* a synchronous call: it settles in the step that invokes it
SyncCall(o, st, status, after, perms, ident) ==
    Call(o, st, status, NoApi, getStoredAuth, after, NoError, perms, ident)

\* login that rejects with a fresh error instead of the caught one
loginRejection_rewrapped(error) == [name |-> "Error", message |-> "Login failed"]

\* the error login rejects with, given the error authAPI.login threw
loginRejection(error) == error

\* checkAuth: resolves iff the stored token is truthy
checkAuth == IF Truthy(getStoredAuth.token) THEN "resolved" ELSE "rejected"

\* checkError that forgets status 403
isAuthFailure_only401(status) == status = 401

\* checkError: is this status an authentication failure?
isAuthFailure(status) == status = 401 \/ status = 403

\* getIdentity
getIdentity ==
    IF Truthy(getStoredAuth.token)
    THEN [st |-> "resolved",
          value |-> [id |-> "user",
                     fullName |-> Or(getStoredAuth.accountRole, "User"),
                     role |-> getStoredAuth.accountRole]]
    ELSE [st |-> "rejected", value |-> NoIdentity]

\* getPermissions that lets corporate_admin export
getPermissions_corporateExports ==
    IF getStoredAuth.accountRole = "admin"
    THEN [st |-> "resolved",
          value |-> [canCreate |-> TRUE, canEdit |-> TRUE, canDelete |-> TRUE,
                     canExport |-> TRUE, canImport |-> TRUE]]
    ELSE IF getStoredAuth.accountRole = "corporate_admin"
    THEN [st |-> "resolved",
          value |-> [canCreate |-> FALSE, canEdit |-> TRUE, canDelete |-> FALSE,
                     canExport |-> TRUE, canImport |-> FALSE]]
    ELSE [st |-> "resolved", value |-> NoPermissions]

\* getPermissions
getPermissions ==
    IF getStoredAuth.accountRole = "admin"
    THEN [st |-> "resolved",
          value |-> [canCreate |-> TRUE, canEdit |-> TRUE, canDelete |-> TRUE,
                     canExport |-> TRUE, canImport |-> TRUE]]
    ELSE IF getStoredAuth.accountRole = "corporate_admin"
    THEN [st |-> "resolved",
          value |-> [canCreate |-> FALSE, canEdit |-> TRUE, canDelete |-> FALSE,
                     canExport |-> FALSE, canImport |-> FALSE]]
    ELSE [st |-> "resolved", value |-> NoPermissions]

\* statuses of the errors handed to checkError
ErrorStatuses == {401, 403, 500, NoStatus}

CanCall == Len(calls) < MaxCalls

\* login, up to its await of authAPI.login
LoginStart ==
    /\ CanCall
    /\ calls' = Append(calls,
          Call("login", "pending", NoStatus, NoApi, getStoredAuth,
               getStoredAuth, NoError, NoPermissions, NoIdentity))
    /\ UNCHANGED <<token, accountRole, lastChange, nonAuthVars>>

\* login, from the point authAPI.login settles
LoginSettle(i, resp) ==
    /\ calls[i].op = "login"
    /\ calls[i].st = "pending"
    /\ LET api == authAPI_login(resp)
           after == IF api.ok
                    THEN setStoredAuth(api.data.token, api.data.account_role)
                    ELSE getStoredAuth
       IN /\ Store(after)
          /\ calls' = [calls EXCEPT ![i] =
                Call("login", IF api.ok THEN "resolved" ELSE "rejected",
                     NoStatus, api, getStoredAuth, after,
                     IF api.ok THEN NoError ELSE loginRejection(api.error),
                     NoPermissions, NoIdentity)]
          /\ lastChange' = IF api.ok THEN "login" ELSE lastChange
    /\ UNCHANGED nonAuthVars

Logout ==
    /\ CanCall
    /\ Store(clearStoredAuth)
    /\ calls' = Append(calls,
          SyncCall("logout", "resolved", NoStatus, clearStoredAuth,
                  NoPermissions, NoIdentity))
    /\ lastChange' = "logout"
    /\ UNCHANGED nonAuthVars

CheckAuth ==
    /\ CanCall
    /\ calls' = Append(calls,
          SyncCall("checkAuth", checkAuth, NoStatus, getStoredAuth,
                  NoPermissions, NoIdentity))
    /\ UNCHANGED <<token, accountRole, lastChange, nonAuthVars>>

checkErrorCall(status) ==
    /\ CanCall
    /\ LET after == IF isAuthFailure(status) THEN clearStoredAuth ELSE getStoredAuth
       IN /\ Store(after)
          /\ calls' = Append(calls,
                SyncCall("checkError",
                        IF isAuthFailure(status) THEN "rejected" ELSE "resolved",
                        status, after, NoPermissions, NoIdentity))
    /\ lastChange' = IF isAuthFailure(status) THEN "checkError" ELSE lastChange

\* checkError called with an error of the given status
CheckError(status) ==
    /\ checkErrorCall(status)
    /\ UNCHANGED nonAuthVars

GetIdentity ==
    /\ CanCall
    /\ calls' = Append(calls,
          SyncCall("getIdentity", getIdentity.st, NoStatus, getStoredAuth,
                  NoPermissions, getIdentity.value))
    /\ UNCHANGED <<token, accountRole, lastChange, nonAuthVars>>

GetPermissions ==
    /\ CanCall
    /\ calls' = Append(calls,
          SyncCall("getPermissions", getPermissions.st, NoStatus, getStoredAuth,
                  getPermissions.value, NoIdentity))
    /\ UNCHANGED <<token, accountRole, lastChange, nonAuthVars>>

----------------------------------------------------------------------------
(* What the transport can answer to a fetch issued by fetchJson *)

\* record ids of the backend (positive: the database numbers rows from 1)
MaxId == 3
Ids == 1..MaxId

\* the id of a request that names no record (getList, create)
NoId == 0

\* a parsed JSON value: null, or an object with the fields the client reads
\* (hasPage: the object has the properties items and total)
Json(isNull, detail, detailIsArray, message, id, hasPage, items, total) ==
    [isNull |-> isNull, detail |-> detail, detailIsArray |-> detailIsArray,
     message |-> message, id |-> id, hasPage |-> hasPage, items |-> items,
     total |-> total]

JsonNull == Json(TRUE, UNDEFINED, FALSE, UNDEFINED, NoId, FALSE, <<>>, 0)
JsonObject(detail, message) ==
    Json(FALSE, detail, FALSE, message, NoId, FALSE, <<>>, 0)
EmptyObject == JsonObject(UNDEFINED, UNDEFINED)

\* a resource record as the backend returns it
Record(id) == Json(FALSE, UNDEFINED, FALSE, UNDEFINED, id, FALSE, <<>>, 0)

\* a page of records: {items, total}
Page ==
    Json(FALSE, UNDEFINED, FALSE, UNDEFINED, NoId, TRUE,
         <<Record(1), Record(2)>>, 2)

\* a response body: its text is empty, is not JSON, or is the JSON of value
Body(kind, text, value) == [kind |-> kind, text |-> text, value |-> value]

EmptyBody == Body("empty", "", EmptyObject)
TextBody == Body("text", "Bad Gateway", EmptyObject)

\* bodies a non-success response may carry
ErrorBodies ==
    { EmptyBody,
      TextBody,
      Body("json", "null", JsonNull),
      Body("json", "{detail}", JsonObject("Not allowed", UNDEFINED)),
      Body("json", "{message}", JsonObject(UNDEFINED, "Denied")),
      Body("json", "{detail:[...]}",
           Json(FALSE, "<field errors>", TRUE, UNDEFINED, NoId, FALSE, <<>>, 0)) }

HttpErrorStatuses == {400, 401, 403, 404, 418, 422, 500, 503}

NoThrown == [name |-> UNDEFINED, status |-> NoStatus, message |-> UNDEFINED,
             validationErrors |-> UNDEFINED]

Http(status, body) ==
    [kind |-> "http", status |-> status, body |-> body, thrown |-> NoThrown]

\* fetch itself rejects: no response was received
NetworkFailure(name, message) ==
    [kind |-> "network", status |-> NoStatus, body |-> EmptyBody,
     thrown |-> [name |-> name, status |-> NoStatus, message |-> message,
                 validationErrors |-> UNDEFINED]]

NetworkFailures ==
    { NetworkFailure("TypeError", "Failed to fetch"),
      NetworkFailure("TypeError", "NetworkError when attempting to fetch resource."),
      NetworkFailure("TypeError", "Load failed") }

ErrorAnswers ==
    NetworkFailures \cup {Http(s, b) : s \in HttpErrorStatuses, b \in ErrorBodies}

\* the success answers of the REST contract: the record asked for, or a page
RecordAnswer(id) == Http(200, Body("json", "{record}", Record(id)))
PageAnswers == {Http(200, Body("json", "{items,total}", Page)), Http(200, EmptyBody)}

\* the answers drawn for the requests of a batch operation
BatchErrorAnswers ==
    { NetworkFailure("TypeError", "Failed to fetch"),
      Http(401, EmptyBody),
      Http(404, Body("json", "{detail}", JsonObject("Not allowed", UNDEFINED))) }

----------------------------------------------------------------------------
(* fetchJson: apiService.js, lines 44-137 *)

\* response.ok
Ok(status) == status >= 200 /\ status <= 299

\* error.message.includes('fetch'), on the messages above
IncludesFetch(message) ==
    message \in {"Failed to fetch", "NetworkError when attempting to fetch resource."}

\* lines 57-65: text ? JSON.parse(text) : {}, with the fallback object when
\* JSON.parse throws
parseJson(body) ==
    IF body.kind = "empty" THEN EmptyObject
    ELSE IF body.kind = "json" THEN body.value
    ELSE JsonObject(body.text, body.text)

\* json.detail || json.message || fallback
detailOrMessage(json, fallback) == Or(Or(json.detail, json.message), fallback)

\* lines 78-106: the message chosen by status code
messageFor(status, json) ==
    CASE status = 400 -> detailOrMessage(json, "Bad request. Please check your input.")
      [] status = 401 -> "Authentication required. Please log in again."
      [] status = 403 ->
            detailOrMessage(json, "You do not have permission to perform this action.")
      [] status = 404 -> detailOrMessage(json, "Resource not found.")
      [] status = 422 ->
            detailOrMessage(json, "Validation error. Please check your input.")
      [] status = 500 ->
            detailOrMessage(json, "Internal server error. Please try again later.")
      [] status = 503 -> "Service unavailable. Please try again later."
      \* the fallback of the default case also quotes the status
      [] OTHER -> detailOrMessage(json, "An error occurred")

Fulfilled(status, json) ==
    [ok |-> TRUE, status |-> status, json |-> json, error |-> NoThrown]
Rejected(error) ==
    [ok |-> FALSE, status |-> NoStatus, json |-> EmptyObject, error |-> error]

\* lines 52-112: the .then callback. Reading json.detail of a null json
\* (line 72) throws a TypeError before the error object is built.
thenHandler(status, body) ==
    LET json == parseJson(body)
    IN IF Ok(status) THEN Fulfilled(status, json)
       ELSE IF json.isNull
       THEN Rejected([name |-> "TypeError", status |-> NoStatus,
                      message |-> "Cannot read properties of null (reading 'detail')",
                      validationErrors |-> UNDEFINED])
       ELSE Rejected([name |-> UNDEFINED, status |-> status,
                      message |-> messageFor(status, json),
                      validationErrors |->
                          IF status = 422 /\ json.detailIsArray
                          THEN json.detail ELSE UNDEFINED])

\* lines 113-136: the .catch callback
catchHandler(error) ==
    IF error.name = "TypeError" /\ IncludesFetch(error.message)
    THEN Rejected([name |-> UNDEFINED, status |-> 0,
                   message |-> "Network error. Please check your connection and try again.",
                   validationErrors |-> UNDEFINED])
    ELSE IF error.status # NoStatus
    THEN Rejected(error)
    ELSE Rejected([name |-> UNDEFINED, status |-> 0,
                   message |-> Or(error.message, "An unexpected error occurred"),
                   validationErrors |-> UNDEFINED])

\* what fetchJson settles with for a transport answer
fetchJson(answer) ==
    IF answer.kind = "network" THEN catchHandler(answer.thrown)
    ELSE LET r == thenHandler(answer.status, answer.body)
         IN IF r.ok THEN r ELSE catchHandler(r.error)

----------------------------------------------------------------------------
(* dataProvider: authProvider.js, lines 206-359 *)

BatchKinds == {"getMany", "updateMany", "deleteMany"}

\* new Error(`${context}: ${error.message}`): an Error has a name and a
\* message, and no status property
newError(context, id, cause) ==
    [name |-> "Error", status |-> NoStatus,
     message |-> [context |-> context, id |-> id, cause |-> cause]]

NoAdapterError ==
    [name |-> UNDEFINED, status |-> NoStatus,
     message |-> [context |-> UNDEFINED, id |-> NoId, cause |-> UNDEFINED]]

\* the catch block of each operation
wrapError(kind, id, error) ==
    CASE kind = "getList" -> newError("Failed to fetch list", NoId, error.message)
      [] kind = "getOne" -> newError("Failed to fetch with id", id, error.message)
      [] kind = "getMany" -> newError("Failed to fetch multiple", NoId, error.message)
      [] kind = "create" ->
            IF error.status = 400 \/ error.status = 422
            THEN newError("Validation error", NoId, error.message)
            ELSE newError("Failed to create", NoId, error.message)
      [] kind = "update" ->
            IF error.status = 400 \/ error.status = 422
            THEN newError("Validation error", NoId, error.message)
            ELSE IF error.status = 403
            THEN newError("Permission denied", NoId, error.message)
            ELSE newError("Failed to update with id", id, error.message)
      [] kind = "updateMany" ->
            newError("Failed to update multiple", NoId, error.message)
      [] kind = "delete" ->
            IF error.status = 403
            THEN newError("Permission denied", NoId, error.message)
            ELSE IF error.status = 404
            THEN newError("Resource not found", NoId, error.message)
            ELSE newError("Failed to delete with id", id, error.message)
      [] kind = "deleteMany" ->
            newError("Failed to delete multiple", NoId, error.message)

\* one fetchJson request of the operation in progress
Request(id, st, order, answer, result) ==
    [id |-> id, st |-> st, order |-> order, answer |-> answer, result |-> result]

PendingRequest(id) ==
    Request(id, "pending", 0, Http(0, EmptyBody), Rejected(NoThrown))

SettledRequests(rs) == {i \in DOMAIN rs : rs[i].st # "pending"}
Failed(rs) == {i \in DOMAIN rs : rs[i].st = "rejected"}

\* the request that was rejected first
FirstFailed(rs) ==
    CHOOSE i \in Failed(rs) : \A j \in Failed(rs) : rs[i].order <= rs[j].order

NoResponses == <<>>

Joined(st, responses, failed) ==
    [st |-> st, responses |-> responses, failed |-> failed]

\* await that collects the responses in the order they arrive
awaitAll_byArrival(rs) ==
    IF Failed(rs) # {}
    THEN Joined("rejected", NoResponses, FirstFailed(rs))
    ELSE IF SettledRequests(rs) = DOMAIN rs
    THEN Joined("resolved",
                [k \in DOMAIN rs |->
                    rs[CHOOSE i \in DOMAIN rs : rs[i].order = k].result],
                0)
    ELSE Joined("pending", NoResponses, 0)

\* await that skips the requests that failed
awaitAll_skipFailed(rs) ==
    IF SettledRequests(rs) = DOMAIN rs
    THEN Joined("resolved", [i \in DOMAIN rs |-> rs[i].result], 0)
    ELSE Joined("pending", NoResponses, 0)

\* await fetchJson(...) / await Promise.all(promises): rejected with the
\* first rejection, resolved with the responses by position once all are in
awaitAll(rs) ==
    IF Failed(rs) # {}
    THEN Joined("rejected", NoResponses, FirstFailed(rs))
    ELSE IF SettledRequests(rs) = DOMAIN rs
    THEN Joined("resolved", [i \in DOMAIN rs |-> rs[i].result], 0)
    ELSE Joined("pending", NoResponses, 0)

NoValue == [data |-> <<>>, total |-> 0]

\* the value each operation returns from its responses
resultOf(kind, ids, responses) ==
    CASE kind = "getList" ->
            \* json.items || [], json.total || 0
            [data |-> IF responses[1].json.hasPage
                      THEN responses[1].json.items ELSE <<>>,
             total |-> IF responses[1].json.hasPage
                       THEN responses[1].json.total ELSE 0]
      [] kind \in {"getOne", "create", "update"} ->
            [data |-> <<responses[1].json>>, total |-> 0]
      [] kind = "delete" -> [data |-> <<[id |-> ids[1]]>>, total |-> 0]
      [] kind = "getMany" ->
            [data |-> [i \in DOMAIN responses |-> responses[i].json], total |-> 0]
      [] kind = "updateMany" ->
            [data |-> [i \in DOMAIN responses |->
                          \* json.id || json
                          IF responses[i].json.id # NoId
                          THEN responses[i].json.id ELSE responses[i].json],
             total |-> 0]
      [] kind = "deleteMany" -> [data |-> ids, total |-> 0]

Operation(kind, ids, st, value, error) ==
    [kind |-> kind, ids |-> ids, st |-> st, value |-> value, error |-> error]

\* the operation after its requests rs: still awaiting, returned, or thrown
operationAfter(kind, ids, rs) ==
    LET j == awaitAll(rs)
    IN CASE j.st = "pending" -> Operation(kind, ids, "pending", NoValue, NoAdapterError)
         [] j.st = "resolved" ->
               Operation(kind, ids, "resolved", resultOf(kind, ids, j.responses),
                         NoAdapterError)
         [] j.st = "rejected" ->
               Operation(kind, ids, "rejected", NoValue,
                         wrapError(kind, rs[j.failed].id, rs[j.failed].result.error))

\* no operation in progress
Idle == Operation("idle", <<>>, "idle", NoValue, NoAdapterError)

\* sequences of distinct ids, of length 0..MaxIds
IdSeqs(n) ==
    {s \in [1..n -> Ids] : \A i, j \in 1..n : i # j => s[i] # s[j]}
BatchIds == UNION {IdSeqs(n) : n \in 0..MaxIds}

\* an operation up to its await: one request per id
Start(kind, ids) ==
    /\ op = Idle
    /\ LET rs == [i \in DOMAIN ids |-> PendingRequest(ids[i])]
       IN /\ reqs' = rs
          /\ op' = operationAfter(kind, ids, rs)
    /\ UNCHANGED nonDataVars

GetList == Start("getList", <<NoId>>)
GetOne == \E id \in Ids : Start("getOne", <<id>>)
Create == Start("create", <<NoId>>)
Update == \E id \in Ids : Start("update", <<id>>)
Delete == \E id \in Ids : Start("delete", <<id>>)
GetMany == \E ids \in BatchIds : Start("getMany", ids)
UpdateMany == \E ids \in BatchIds : Start("updateMany", ids)
DeleteMany == \E ids \in BatchIds : Start("deleteMany", ids)

\* the answers the transport may give to request i of the operation
AnswersFor(kind, id) ==
    CASE kind = "getList" -> PageAnswers \cup ErrorAnswers
      [] kind = "create" -> {RecordAnswer(1)} \cup ErrorAnswers
      [] kind \in BatchKinds -> {RecordAnswer(id)} \cup BatchErrorAnswers
      [] OTHER -> {RecordAnswer(id)} \cup ErrorAnswers

\* the response to request i arrives: fetchJson settles, and the operation
\* continues if it is still awaiting
Respond(i, answer) ==
    /\ op # Idle
    /\ reqs[i].st = "pending"
    /\ LET result == fetchJson(answer)
           rs == [reqs EXCEPT ![i] =
                    Request(reqs[i].id,
                            IF result.ok THEN "fulfilled" ELSE "rejected",
                            Cardinality(SettledRequests(reqs)) + 1, answer, result)]
       IN /\ reqs' = rs
          /\ op' = IF op.st = "pending"
                   THEN operationAfter(op.kind, op.ids, rs) ELSE op
    /\ UNCHANGED nonDataVars

\* the response that made the operation throw
failedAnswer == reqs[awaitAll(reqs).failed].answer

\* the HTTP status of an answer (NoStatus when no response arrived)
statusOf(answer) == IF answer.kind = "http" THEN answer.status ELSE NoStatus

\* the error of operation kind, thrown on a response of the given status,
\* handed to call number call of the authProvider
Handed(call, kind, status) == [call |-> call, kind |-> kind, status |-> status]

\* no error handed yet
NoHanded == Handed(0, "none", NoStatus)

\* the caller catches the error the operation threw and hands it to
\* checkError, which reads error.status
HandError ==
    /\ op # Idle
    /\ op.st = "rejected"
    /\ checkErrorCall(op.error.status)
    /\ handed' = Handed(Len(calls) + 1, op.kind, statusOf(failedAnswer))
    /\ op' = Idle
    /\ reqs' = <<>>
    /\ UNCHANGED <<queryVars, exportVars, tripVars, uploadVars, toolbarVars>>

\* the caller takes the result; requests still in flight are forgotten
Return ==
    /\ op # Idle
    /\ op.st # "pending"
    /\ op' = Idle
    /\ reqs' = <<>>
    /\ UNCHANGED nonDataVars

----------------------------------------------------------------------------
(* Strings and values of the list parameters.  A string is a sequence of   *)
(* pieces: a piece is one reserved character (space, %, &, =, +), one      *)
(* digit, or a run of characters that no encoder touches.                  *)

\* longest filter value, in pieces
MaxLen == 2

ValuePieces == {"a", " "}
StringsUpTo(n) == UNION {[1..k -> ValuePieces] : k \in 0..n}

JsValue(t, s) == [t |-> t, s |-> s]
JsNull == JsValue("null", <<>>)
JsUndefined == JsValue("undefined", <<>>)
JsString(s) == JsValue("string", s)
JsNumber(s) == JsValue("number", s)

\* truthiness of a value of the list parameters
JsTruthy(v) ==
    /\ v.t \notin {"null", "undefined"}
    /\ v.t = "string" => v.s # <<>>
    /\ v.t = "number" => v.s # <<"0">>

\* String(v): what URLSearchParams.append and encodeURIComponent see
StringOf(v) ==
    CASE v.t = "null" -> <<"null">>
      [] v.t = "undefined" -> <<"undefined">>
      [] OTHER -> v.s

\* a || b
JsOr(a, b) == IF JsTruthy(a) THEN a ELSE b

\* String.prototype.toLowerCase, on the sort orders of the model
toLowerCase(s) ==
    [i \in DOMAIN s |->
        CASE s[i] = "ASC" -> "asc"
          [] s[i] = "DESC" -> "desc"
          [] s[i] = "Desc" -> "desc"
          [] s[i] = "Random" -> "random"
          [] OTHER -> s[i]]

\* the characters both encoders escape, and their escapes
Reserved == {" ", "%", "&", "=", "+"}

PercentCode(c) ==
    CASE c = " " -> <<"%", "2", "0">>
      [] c = "%" -> <<"%", "2", "5">>
      [] c = "&" -> <<"%", "2", "6">>
      [] c = "+" -> <<"%", "2", "B">>
      [] c = "=" -> <<"%", "3", "D">>

RECURSIVE Flatten(_)
Flatten(ss) == IF ss = <<>> THEN <<>> ELSE Head(ss) \o Flatten(Tail(ss))

\* encodeURIComponent: every reserved character becomes its %XX escape
encodeURIComponent(s) ==
    Flatten([i \in DOMAIN s |->
               IF s[i] \in Reserved THEN PercentCode(s[i]) ELSE <<s[i]>>])

\* the application/x-www-form-urlencoded serializer of URLSearchParams:
\* a space becomes +, every other reserved character its %XX escape
formEncode(s) ==
    Flatten([i \in DOMAIN s |->
               IF s[i] = " " THEN <<"+">>
               ELSE IF s[i] \in Reserved THEN PercentCode(s[i]) ELSE <<s[i]>>])

\* one decoding of a serialized name or value (what the server applies)
RECURSIVE formDecode(_)
formDecode(s) ==
    IF s = <<>> THEN <<>>
    ELSE IF Head(s) = "+" THEN <<" ">> \o formDecode(Tail(s))
    ELSE IF Head(s) = "%" /\ Len(s) >= 3
    THEN LET code == SubSeq(s, 1, 3)
             char == CHOOSE c \in Reserved : PercentCode(c) = code
         IN <<char>> \o formDecode(SubSeq(s, 4, Len(s)))
    ELSE <<Head(s)>> \o formDecode(Tail(s))

----------------------------------------------------------------------------
(* URLSearchParams: a list of name/value pairs *)

Entry(name, value) == [name |-> name, value |-> value]

\* queryParams.append(name, value)
append(entries, name, value) == Append(entries, Entry(name, StringOf(value)))

\* queryParams.toString(): name=value pairs joined by &
RECURSIVE toString(_)
toString(entries) ==
    IF entries = <<>> THEN <<>>
    ELSE formEncode(Head(entries).name) \o <<"=">> \o formEncode(Head(entries).value)
         \o (IF Tail(entries) = <<>> THEN <<>> ELSE <<"&">> \o toString(Tail(entries)))

\* the first position of piece c in s, or 0
IndexOf(s, c) ==
    IF \E i \in DOMAIN s : s[i] = c
    THEN CHOOSE i \in DOMAIN s : s[i] = c /\ \A j \in 1..(i - 1) : s[j] # c
    ELSE 0

\* the name/value pairs a server reads from a query string
RECURSIVE parseQuery(_)
parseQuery(s) ==
    IF s = <<>> THEN <<>>
    ELSE LET amp == IndexOf(s, "&")
             first == IF amp = 0 THEN s ELSE SubSeq(s, 1, amp - 1)
             rest == IF amp = 0 THEN <<>> ELSE SubSeq(s, amp + 1, Len(s))
             eq == IndexOf(first, "=")
             name == IF eq = 0 THEN first ELSE SubSeq(first, 1, eq - 1)
             value == IF eq = 0 THEN <<>> ELSE SubSeq(first, eq + 1, Len(first))
         IN <<Entry(formDecode(name), formDecode(value))>> \o parseQuery(rest)

----------------------------------------------------------------------------
(* buildQueryParams and the list requests: authProvider.js, lines 171-270 *)

Pagination(present, page, perPage) ==
    [present |-> present, page |-> page, perPage |-> perPage]
Sort(present, field, order) == [present |-> present, field |-> field, order |-> order]
Filter(present, entries) == [present |-> present, entries |-> entries]
Params(pagination, sort, filter) ==
    [pagination |-> pagination, sort |-> sort, filter |-> filter]

\* lines 176-179
appendPagination(entries, pagination) ==
    IF pagination.present
    THEN append(append(entries, <<"page">>, JsOr(pagination.page, JsNumber(<<"1">>))),
                <<"page_size">>, JsOr(pagination.perPage, JsNumber(<<"1", "0">>)))
    ELSE entries

\* the sort order emitted without toLowerCase()
sortOrder_asGiven(order) == StringOf(JsOr(order, JsString(<<"ASC">>)))

\* the sort order emitted for sort.order: (sort.order || 'ASC').toLowerCase()
sortOrder(order) == toLowerCase(StringOf(JsOr(order, JsString(<<"ASC">>))))

\* lines 183-187
appendSort(entries, sort) ==
    IF sort.present /\ JsTruthy(sort.field)
    THEN append(append(entries, <<"sort_field">>, sort.field),
                <<"sort_order">>, JsString(sortOrder(sort.order)))
    ELSE entries

\* line 194 that tests only null and undefined
isKept_emptyToo(value) == value.t \notin {"null", "undefined"}

\* line 194: value !== null && value !== undefined && value !== ''
isKept(value) ==
    /\ value.t # "null"
    /\ value.t # "undefined"
    /\ ~(value.t = "string" /\ value.s = <<>>)

\* lines 190-198: Object.keys(filter).forEach(...)
RECURSIVE appendFilter(_, _)
appendFilter(entries, filterEntries) ==
    IF filterEntries = <<>> THEN entries
    ELSE LET e == Head(filterEntries)
         IN appendFilter(
              IF isKept(e.value)
              THEN append(entries, e.key,
                          JsString(encodeURIComponent(StringOf(e.value))))
              ELSE entries,
              Tail(filterEntries))

\* the URLSearchParams that buildQueryParams serializes
queryParamsOf(params) ==
    appendFilter(appendSort(appendPagination(<<>>, params.pagination), params.sort),
                 IF params.filter.present THEN params.filter.entries ELSE <<>>)

buildQueryParams(params) == toString(queryParamsOf(params))

\* getList, line 212: the part of the URL after the resource
urlSuffix(queryString) == IF queryString # <<>> THEN <<"?">> \o queryString ELSE <<>>

FilterEntry(key, value) == [key |-> key, value |-> value]

\* getManyReference whose reference never replaces a caller's filter
mergeReference_callerWins(filterEntries, target, id) ==
    IF \E i \in DOMAIN filterEntries : filterEntries[i].key = target
    THEN filterEntries
    ELSE Append(filterEntries, FilterEntry(target, id))

\* getManyReference, lines 258-261: {...params.filter, [params.target]: params.id}
mergeReference(filterEntries, target, id) ==
    IF \E i \in DOMAIN filterEntries : filterEntries[i].key = target
    THEN [i \in DOMAIN filterEntries |->
            IF filterEntries[i].key = target
            THEN FilterEntry(target, id) ELSE filterEntries[i]]
    ELSE Append(filterEntries, FilterEntry(target, id))

\* the query built for one list request
Query(kind, params, target, id, delegated, entries, string) ==
    [kind |-> kind, params |-> params, target |-> target, id |-> id,
     delegated |-> delegated, entries |-> entries, string |-> string]

NoParams ==
    Params(Pagination(FALSE, JsUndefined, JsUndefined),
           Sort(FALSE, JsUndefined, JsUndefined), Filter(FALSE, <<>>))

NoQuery == Query("none", NoParams, <<>>, JsUndefined, NoParams, <<>>, <<>>)

\* the inputs of the list requests
Paginations ==
    { Pagination(FALSE, JsUndefined, JsUndefined),
      Pagination(TRUE, JsNumber(<<"2">>), JsNumber(<<"2", "5">>)) }

SortOrders ==
    { JsUndefined, JsString(<<>>), JsString(<<"ASC">>), JsString(<<"DESC">>),
      JsString(<<"asc">>), JsString(<<"Desc">>), JsString(<<"Random">>) }

Sorts ==
    {Sort(FALSE, JsUndefined, JsUndefined)}
    \cup {Sort(TRUE, f, o) : f \in {JsUndefined, JsString(<<"name">>)}, o \in SortOrders}

FilterKeys == {<<"role">>, <<"q">>}

FilterValues ==
    {JsNull, JsUndefined, JsNumber(<<"0">>)}
    \cup {JsString(s) : s \in StringsUpTo(MaxLen)}

\* filter objects: their keys are distinct, in insertion order
FilterEntriesOf(n) ==
    {f \in [1..n -> {FilterEntry(k, v) : k \in FilterKeys, v \in FilterValues}] :
        \A i, j \in 1..n : i # j => f[i].key # f[j].key}

Filters ==
    {Filter(FALSE, <<>>)}
    \cup {Filter(TRUE, f) : f \in UNION {FilterEntriesOf(n) : n \in 0..2}}

ReferenceIds == {JsNumber(<<"7">>), JsString(<<"a", " ">>)}

\* the query getList puts in the URL for params (lines 211-212)
listQuery(kind, params, target, id, delegated) ==
    Query(kind, params, target, id, delegated, queryParamsOf(delegated),
          urlSuffix(buildQueryParams(delegated)))

\* the params getManyReference hands to getList: {...params, filter: filters}
delegatedParams(params, target, id) ==
    [params EXCEPT !.filter =
        Filter(TRUE, mergeReference(
            IF params.filter.present THEN params.filter.entries ELSE <<>>,
            target, id))]

\* getList up to its fetchJson call
ListRequest ==
    /\ qry = NoQuery
    /\ \E pg \in Paginations, so \in Sorts, fi \in Filters :
          qry' = listQuery("getList", Params(pg, so, fi), <<>>, JsUndefined,
                           Params(pg, so, fi))
    /\ UNCHANGED nonQueryVars

\* getManyReference up to the fetchJson call of the getList it delegates to
ReferenceRequest ==
    /\ qry = NoQuery
    /\ \E so \in Sorts, fi \in Filters, target \in FilterKeys, id \in ReferenceIds :
          LET params == Params(Pagination(TRUE, JsUndefined, JsUndefined), so, fi)
          IN qry' = listQuery("getManyReference", params, target, id,
                              delegatedParams(params, target, id))
    /\ UNCHANGED nonQueryVars

\* the request leaves with the URL built
QuerySent ==
    /\ qry # NoQuery
    /\ qry' = NoQuery
    /\ UNCHANGED nonQueryVars

----------------------------------------------------------------------------
(* usersAPI.exportCSV: apiService.js, lines 199-293 *)

\* text.substring(0, 200), line 287
SubstringEnd == 200

\* String.prototype.trim
RECURSIVE trimStart(_)
trimStart(s) == IF s # <<>> /\ Head(s) = " " THEN trimStart(Tail(s)) ELSE s
RECURSIVE trimEnd(_)
trimEnd(s) ==
    IF s # <<>> /\ s[Len(s)] = " " THEN trimEnd(SubSeq(s, 1, Len(s) - 1)) ELSE s
trim(s) == trimEnd(trimStart(s))

\* lines 206-210
getStringValue(value) ==
    IF value.t \in {"null", "undefined"} THEN JsNull
    ELSE JsOr(JsString(trim(StringOf(value))), JsNull)

\* lines 213-216, and the same for the other three filters
appendIfValue(entries, name, value) ==
    IF JsTruthy(getStringValue(value))
    THEN append(entries, name, getStringValue(value))
    ELSE entries

ExportFilters(role, status, account_role, search) ==
    [role |-> role, status |-> status, account_role |-> account_role,
     search |-> search]

\* lines 238-244
exportSortOrder(order) ==
    LET lower == toLowerCase(StringOf(JsOr(order, JsString(<<"DESC">>))))
    IN IF lower = <<"asc">> \/ lower = <<"desc">> THEN lower ELSE <<"desc">>

\* lines 235-245
appendExportSort(entries, sort) ==
    LET sortField == getStringValue(IF sort.present THEN sort.field ELSE JsUndefined)
    IN IF JsTruthy(sortField)
       THEN append(append(entries, <<"sort_field">>, sortField),
                   <<"sort_order">>, JsString(exportSortOrder(sort.order)))
       ELSE entries

\* lines 203-245: params
exportParams(filters, sort) ==
    appendExportSort(
        appendIfValue(
            appendIfValue(
                appendIfValue(
                    appendIfValue(<<>>, <<"role">>, filters.role),
                    <<"status">>, filters.status),
                <<"account_role">>, filters.account_role),
            <<"search">>, filters.search),
        sort)

\* lines 248-249: the part of the URL after /users/export-csv
exportUrl(filters, sort) == urlSuffix(toString(exportParams(filters, sort)))

\* response.headers.get(name): null when the response has no such header
Header(present, value) == [present |-> present, value |-> value]
NoHeader == Header(FALSE, <<>>)

\* contentType && ...: null and '' are falsy
HeaderTruthy(h) == h.present /\ h.value # <<>>

\* contentType.includes(part), on media types written as their pieces
includes(h, part) == \E i \in DOMAIN h.value : h.value[i] = part

\* the text of a success body: what it is, and its length in characters
Text(name, len) == [name |-> name, len |-> len]
NoText == Text("<none>", 0)

\* text.substring(0, end)
substring(text, end) == Text(text.name, IF text.len < end THEN text.len ELSE end)

\* a response to the export request, or the failure of fetch itself
ExportResponse(kind, status, contentType, text, body) ==
    [kind |-> kind, status |-> status, contentType |-> contentType,
     text |-> text, body |-> body]
NoExportResponse == ExportResponse("none", NoStatus, NoHeader, NoText, EmptyBody)

\* the Error exportCSV throws
ExportError(context, status, contentType, text, plain) ==
    [context |-> context, status |-> status, contentType |-> contentType,
     text |-> text, plain |-> plain]
NoExportError == ExportError(UNDEFINED, NoStatus, NoHeader, NoText, UNDEFINED)

\* `HTTP ${response.status}: ${response.statusText}`
httpMessage(status) == ExportError("HTTP", status, NoHeader, NoText, UNDEFINED)

\* new Error(errorMessage) with the detail, message or text of the response
plainMessage(plain) == ExportError("", NoStatus, NoHeader, NoText, plain)

\* lines 260-279: the message for a response that is not ok
exportErrorMessage(response) ==
    IF HeaderTruthy(response.contentType)
       /\ includes(response.contentType, "application/json")
    THEN IF response.body.kind = "json" /\ ~response.body.value.isNull
         THEN LET error == response.body.value
              IN IF Truthy(Or(error.detail, error.message))
                 THEN plainMessage(Or(error.detail, error.message))
                 ELSE httpMessage(response.status)
         ELSE httpMessage(response.status)
    ELSE IF Truthy(response.body.text)
         THEN plainMessage(response.body.text)
         ELSE httpMessage(response.status)

ExportResult(st, blob, error) == [st |-> st, blob |-> blob, error |-> error]
NoExportResult == ExportResult("none", NoText, NoExportError)

\* lines 283-284: the test of the content-type
isUnexpectedType(contentType) ==
    /\ HeaderTruthy(contentType)
    /\ ~includes(contentType, "text/csv")
    /\ ~includes(contentType, "application/octet-stream")

\* lines 251-292: exportCSV from the point its fetch settles
exportResult(response) ==
    IF response.kind = "network"
    THEN ExportResult("rejected", NoText, plainMessage("Failed to fetch"))
    ELSE IF ~Ok(response.status)
    THEN ExportResult("rejected", NoText, exportErrorMessage(response))
    ELSE IF isUnexpectedType(response.contentType)
    THEN ExportResult("rejected", NoText,
                      ExportError("Unexpected response type", NoStatus,
                                  response.contentType,
                                  substring(response.text, SubstringEnd), UNDEFINED))
    ELSE ExportResult("resolved", response.text, NoExportError)

\* one call of exportCSV
Export(st, filters, sort, url, response, result) ==
    [st |-> st, filters |-> filters, sort |-> sort, url |-> url,
     response |-> response, result |-> result]

NoExport ==
    Export("idle", ExportFilters(JsUndefined, JsUndefined, JsUndefined, JsUndefined),
           Sort(FALSE, JsUndefined, JsUndefined), <<>>, NoExportResponse,
           NoExportResult)

\* the inputs of exportCSV
ExportValues == {JsUndefined, JsString(<<" ">>), JsString(<<" ", "a", " ">>)}
ExportFilterInputs ==
    {ExportFilters(r, s, JsUndefined, q) :
        r \in ExportValues, s \in {JsUndefined, JsString(<<"active">>)},
        q \in ExportValues}
    \cup {ExportFilters(JsNull, JsString(<<>>), JsString(<<"admin">>), JsNumber(<<"0">>))}

\* content-type headers: none, empty, CSV-like ones, and others
ContentTypes ==
    { NoHeader,
      Header(TRUE, <<>>),
      Header(TRUE, <<"text/csv">>),
      Header(TRUE, <<"text/csv", "; charset=utf-8">>),
      Header(TRUE, <<"application/octet-stream">>),
      Header(TRUE, <<"text/plain">>),
      Header(TRUE, <<"text/html", "; charset=utf-8">>),
      Header(TRUE, <<"application/json">>) }

\* success bodies: empty, short, exactly at and one over the substring limit
Texts ==
    {Text("empty", 0), Text("oops", 4), Text("rows", SubstringEnd),
     Text("page", SubstringEnd + 1)}

ExportResponses ==
    {ExportResponse("http", 200, c, t, EmptyBody) : c \in ContentTypes, t \in Texts}
    \cup {ExportResponse("http", s, c, NoText, b) :
             s \in {401, 500},
             c \in {NoHeader, Header(TRUE, <<"application/json">>),
                    Header(TRUE, <<"text/plain">>)},
             b \in ErrorBodies}
    \cup {ExportResponse("network", NoStatus, NoHeader, NoText, EmptyBody)}

\* exportCSV, up to its await of fetch
ExportCSV ==
    /\ exp = NoExport
    /\ \E filters \in ExportFilterInputs, sort \in Sorts :
          exp' = Export("pending", filters, sort, exportUrl(filters, sort),
                        NoExportResponse, NoExportResult)
    /\ UNCHANGED nonExportVars

\* exportCSV, from the point its fetch settles
ExportSettle ==
    /\ exp.st = "pending"
    /\ \E response \in ExportResponses :
          exp' = [exp EXCEPT !.st = "settled", !.response = response,
                             !.result = exportResult(response)]
    /\ UNCHANGED nonExportVars

\* the caller takes the blob or the error
ExportTaken ==
    /\ exp.st = "settled"
    /\ exp' = NoExport
    /\ UNCHANGED nonExportVars

----------------------------------------------------------------------------
(* create followed by getOne: authProvider.js, lines 273-287 and 229-236,  *)
(* against a backend that stores the record it is sent and echoes it.      *)
(* JSON text is a sequence of pieces: the punctuation {, }, :, comma, the  *)
(* quote and the backslash are pieces of their own.                        *)

JsBoolean(b) == JsValue("boolean", IF b THEN <<"true">> ELSE <<"false">>)

\* one property of an object
Member(key, value) == [key |-> key, value |-> value]

\* object[key]: undefined when the object has no such property
Get(object, key) ==
    IF \E i \in DOMAIN object : object[i].key = key
    THEN object[CHOOSE i \in DOMAIN object : object[i].key = key].value
    ELSE JsUndefined

\* the escapes JSON.stringify writes inside a string
RECURSIVE escape(_)
escape(s) ==
    IF s = <<>> THEN <<>>
    ELSE (IF Head(s) \in {"\"", "\\"} THEN <<"\\", Head(s)>> ELSE <<Head(s)>>)
         \o escape(Tail(s))

quote(s) == <<"\"">> \o escape(s) \o <<"\"">>

\* the JSON text of a value
valueText(v) ==
    CASE v.t = "string" -> quote(v.s)
      [] v.t = "null" -> <<"null">>
      [] OTHER -> v.s

\* the members of an object, comma separated; a property whose value is
\* undefined is left out
RECURSIVE memberTexts(_)
memberTexts(object) ==
    IF object = <<>> THEN <<>>
    ELSE IF Head(object).value.t = "undefined" THEN memberTexts(Tail(object))
    ELSE LET rest == memberTexts(Tail(object))
         IN quote(Head(object).key) \o <<":">> \o valueText(Head(object).value)
            \o (IF rest = <<>> THEN <<>> ELSE <<",">> \o rest)

\* a request body that also leaves out the properties whose value is null
createBody_dropsNull(object) ==
    <<"{">>
    \o memberTexts([i \in DOMAIN object |->
                      IF object[i].value.t = "null"
                      THEN Member(object[i].key, JsUndefined) ELSE object[i]])
    \o <<"}">>

\* JSON.stringify(object)
JSONstringify(object) == <<"{">> \o memberTexts(object) \o <<"}">>

Parsed(value, rest) == [value |-> value, rest |-> rest]

\* a JSON string, read from the piece after its opening quote
RECURSIVE parseString(_, _)
parseString(s, acc) ==
    IF Head(s) = "\"" THEN Parsed(acc, Tail(s))
    ELSE IF Head(s) = "\\" THEN parseString(Tail(Tail(s)), Append(acc, s[2]))
    ELSE parseString(Tail(s), Append(acc, Head(s)))

\* a JSON literal (null, true, false or a number), read up to , or }
RECURSIVE parseLiteral(_, _)
parseLiteral(s, acc) ==
    IF Head(s) \in {",", "}"}
    THEN Parsed(CASE acc = <<"null">> -> JsNull
                  [] acc \in {<<"true">>, <<"false">>} -> JsValue("boolean", acc)
                  [] OTHER -> JsNumber(acc),
                s)
    ELSE parseLiteral(Tail(s), Append(acc, Head(s)))

parseValue(s) ==
    IF Head(s) = "\""
    THEN LET r == parseString(Tail(s), <<>>) IN Parsed(JsString(r.value), r.rest)
    ELSE parseLiteral(s, <<>>)

\* the members of a JSON object, read from the piece after its {
RECURSIVE parseMembers(_, _)
parseMembers(s, acc) ==
    IF Head(s) = "}" THEN acc
    ELSE IF Head(s) = "," THEN parseMembers(Tail(s), acc)
    ELSE LET k == parseString(Tail(s), <<>>)
             v == parseValue(Tail(k.rest))
         IN parseMembers(v.rest, Append(acc, Member(k.value, v.value)))

\* JSON.parse(text), for the text of an object
JSONparse(text) == parseMembers(Tail(text), <<>>)

\* the decimal digits of a natural number
RECURSIVE decimal(_)
decimal(n) ==
    LET digit == <<"0", "1", "2", "3", "4", "5", "6", "7", "8", "9">>[(n % 10) + 1]
    IN IF n < 10 THEN <<digit>> ELSE decimal(n \div 10) \o <<digit>>

\* create, line 277: the body of the POST request
createBody(data) == JSONstringify(data)

\* getOne, line 231: the part of the URL after the resource
getOnePath(id) == StringOf(id)

\* the backend: POST stores the record it is sent under the next free id
\* and echoes the stored record (an id it is sent is replaced)
backendCreate(records, body) ==
    LET sent == JSONparse(body)
        id == JsNumber(decimal(Len(records) + 1))
    IN <<Member(<<"id">>, id)>>
       \o SelectSeq(sent, LAMBDA m : m.key # <<"id">>)

\* the backend: GET /resource/<id> answers with the stored record of that
\* id, or with 404
backendGet(records, path) ==
    IF \E i \in DOMAIN records : StringOf(Get(records[i], <<"id">>)) = path
    THEN Http(200,
              LET record == records[CHOOSE i \in DOMAIN records :
                                       StringOf(Get(records[i], <<"id">>)) = path]
              IN Body("json", JSONstringify(record),
                      JSONparse(JSONstringify(record))))
    ELSE Http(404, Body("json", "{detail}", JsonObject("Not found", UNDEFINED)))

\* the answer to the POST: the stored record as JSON text
backendCreated(record) ==
    Http(201, Body("json", JSONstringify(record), JSONparse(JSONstringify(record))))

\* create then getOne: the data, the backend's records, the two results
Trip(st, data, records, body, created, path, got) ==
    [st |-> st, data |-> data, records |-> records, body |-> body,
     created |-> created, path |-> path, got |-> got]

NoResult == Operation("idle", <<>>, "idle", NoValue, NoAdapterError)
NoTrip == Trip("idle", <<>>, <<>>, <<>>, NoResult, <<>>, NoResult)

\* what an operation returns or throws for the answer to its one request
settled(kind, id, answer) ==
    LET r == fetchJson(answer)
    IN IF r.ok
       THEN Operation(kind, <<id>>, "resolved", resultOf(kind, <<id>>, <<r>>),
                      NoAdapterError)
       ELSE Operation(kind, <<id>>, "rejected", NoValue, wrapError(kind, id, r.error))

\* the values of the fields of a form
FieldValues ==
    { JsUndefined, JsNull, JsBoolean(TRUE), JsNumber(<<"0">>), JsNumber(<<"2", "5">>),
      JsString(<<>>), JsString(<<"null">>), JsString(<<"a", "\"">>),
      JsString(<<"\\", ",">>) }

FieldKeys == {<<"name">>, <<"role">>}

\* the data of a create: objects with distinct keys
CreateData ==
    UNION {{d \in [1..n -> {Member(k, v) : k \in FieldKeys, v \in FieldValues}] :
               \A i, j \in 1..n : i # j => d[i].key # d[j].key} : n \in 0..2}

\* what the backend holds before the create
StoredBefore == {<<>>, << <<Member(<<"id">>, JsNumber(<<"1">>)),
                            Member(<<"name">>, JsString(<<"b">>))>> >>}

\* create, up to its await of fetchJson
TripCreate ==
    /\ trip = NoTrip
    /\ \E data \in CreateData, records \in StoredBefore :
          trip' = Trip("creating", data, records, createBody(data), NoResult,
                       <<>>, NoResult)
    /\ UNCHANGED nonTripVars

\* the backend stores and answers; create returns {data: json}
TripCreated ==
    /\ trip.st = "creating"
    /\ LET record == backendCreate(trip.records, trip.body)
       IN trip' = [trip EXCEPT !.st = "created",
                               !.records = Append(trip.records, record),
                               !.created = settled("create", NoId,
                                                   backendCreated(record))]
    /\ UNCHANGED nonTripVars

\* getOne with the id of the record create returned, up to its await
TripGetOne ==
    /\ trip.st = "created"
    /\ trip' = [trip EXCEPT !.st = "getting",
                            !.path = getOnePath(Get(trip.created.value.data[1],
                                                    <<"id">>))]
    /\ UNCHANGED nonTripVars

\* the backend answers; getOne returns {data: json}
TripGot ==
    /\ trip.st = "getting"
    /\ trip' = [trip EXCEPT !.st = "done",
                            !.got = settled("getOne", NoId,
                                            backendGet(trip.records, trip.path))]
    /\ UNCHANGED nonTripVars

\* the next round trip starts from scratch
TripReset ==
    /\ trip.st = "done"
    /\ trip' = NoTrip
    /\ UNCHANGED nonTripVars

----------------------------------------------------------------------------
(* BulkUploadButton: part_000, lines 142-297, and usersAPI.uploadCSV:      *)
(* apiService.js, lines 172-192.  A file name is a sequence of characters. *)

\* upload requests in one behaviour
MaxUploads == 2

\* a File of the file input, or no file (null, or files[0] of an empty list)
File(present, name) == [present |-> present, name |-> name]
NoFile == File(FALSE, <<>>)

\* an endsWith that accepts the suffix anywhere in the name
endsWith_anywhere(s, suffix) ==
    \E i \in 1..Len(s) :
        i + Len(suffix) - 1 <= Len(s) /\ SubSeq(s, i, i + Len(suffix) - 1) = suffix

\* String.prototype.endsWith
endsWith(s, suffix) ==
    /\ Len(s) >= Len(suffix)
    /\ SubSeq(s, Len(s) - Len(suffix) + 1, Len(s)) = suffix

\* '.csv'
DotCsv == <<".", "c", "s", "v">>

\* the request uploadCSV sends: the file as form data, and the token
UploadRequest(file, authorization) == [file |-> file, authorization |-> authorization]
NoUploadRequest == UploadRequest(NoFile, "")

\* uploadCSV, lines 173-183: up to its await of fetch
uploadRequest(file) ==
    UploadRequest(file, IF Truthy(token) THEN "Bearer" ELSE "")

\* the answer to an upload: ok or not, whether the body is JSON, its detail,
\* and the number of rows in its errors
UploadResponse(kind, ok, isJson, detail, created, errorRows) ==
    [kind |-> kind, ok |-> ok, isJson |-> isJson, detail |-> detail,
     created |-> created, errorRows |-> errorRows]

UploadResponses ==
    { UploadResponse("http", TRUE, TRUE, UNDEFINED, 2, 0),
      UploadResponse("http", TRUE, TRUE, UNDEFINED, 1, 1),
      UploadResponse("http", TRUE, FALSE, UNDEFINED, 0, 0),
      UploadResponse("http", FALSE, TRUE, "Only CSV files are allowed", 0, 0),
      UploadResponse("http", FALSE, FALSE, UNDEFINED, 0, 0),
      UploadResponse("network", FALSE, FALSE, UNDEFINED, 0, 0) }

\* the results shown in the dialog
Results(present, created, errorRows) ==
    [present |-> present, created |-> created, errorRows |-> errorRows]
NoResults == Results(FALSE, 0, 0)

\* what uploadCSV settles with, lines 185-191
Uploaded(ok, data, message) == [ok |-> ok, data |-> data, message |-> message]
uploadCSV(response) ==
    IF response.kind = "network" THEN Uploaded(FALSE, NoResults, "Failed to fetch")
    ELSE IF ~response.ok
    THEN Uploaded(FALSE, NoResults,
                  Or(IF response.isJson THEN response.detail ELSE UNDEFINED,
                     "Upload failed"))
    ELSE IF ~response.isJson
    THEN Uploaded(FALSE, NoResults, "Unexpected token")
    ELSE Uploaded(TRUE, Results(TRUE, response.created, response.errorRows),
                  UNDEFINED)

\* the state of the component, the file in the file input, the request in
\* flight and the requests sent so far
Dialog(open, file, uploading, results, notice, picked, inflight, sent) ==
    [open |-> open, file |-> file, uploading |-> uploading, results |-> results,
     notice |-> notice, picked |-> picked, inflight |-> inflight, sent |-> sent]

NoNotice == "<none>"

\* the component as useState initialises it
InitialDialog ==
    Dialog(FALSE, NoFile, FALSE, NoResults, NoNotice, NoFile, NoUploadRequest, <<>>)

\* the files a user may pick
FileNames ==
    { <<"u", ".", "c", "s", "v">>,
      <<".", "c", "s", "v">>,
      <<"u", ".", "c", "s", "v", ".", "e", "x", "e">>,
      <<"u", ".", "C", "S", "V">>,
      <<"u", ".", "t", "x", "t">>,
      <<"c", "s", "v">> }

Selections == {NoFile} \cup {File(TRUE, n) : n \in FileNames}

\* handleFileChange, lines 154-164
handleFileChange(selectedFile) ==
    IF ~selectedFile.present THEN [ui EXCEPT !.picked = selectedFile]
    ELSE IF ~endsWith(selectedFile.name, DotCsv)
    THEN [ui EXCEPT !.picked = selectedFile, !.notice = "Please select a CSV file"]
    ELSE [ui EXCEPT !.picked = selectedFile, !.file = selectedFile,
                    !.results = NoResults]

\* handleClose, lines 189-193
handleClose == [ui EXCEPT !.open = FALSE, !.file = NoFile, !.results = NoResults]

\* click on the Bulk Upload button, line 231
OpenDialog ==
    /\ ~ui.open
    /\ ui' = [ui EXCEPT !.open = TRUE]
    /\ UNCHANGED nonUploadVars

\* the user picks a file (or none) in the file input, enabled while no
\* upload runs
PickFile ==
    /\ ui.open
    /\ ~ui.uploading
    /\ \E selectedFile \in Selections : ui' = handleFileChange(selectedFile)
    /\ UNCHANGED nonUploadVars

\* click on Upload (enabled with a file and no upload running): handleUpload
\* up to its await, lines 166-174
ClickUpload ==
    /\ ui.open
    /\ ui.file.present /\ ~ui.uploading
    /\ Len(ui.sent) < MaxUploads
    /\ ui' = IF ~ui.file.present
             THEN [ui EXCEPT !.notice = "Please select a CSV file"]
             ELSE [ui EXCEPT !.uploading = TRUE,
                             !.inflight = uploadRequest(ui.file),
                             !.sent = Append(ui.sent, uploadRequest(ui.file))]
    /\ UNCHANGED nonUploadVars

\* the upload settles: handleUpload from its await on, lines 174-186
UploadSettle ==
    /\ ui.inflight # NoUploadRequest
    /\ \E response \in UploadResponses :
          LET r == uploadCSV(response)
          IN ui' = [ui EXCEPT !.uploading = FALSE,
                              !.inflight = NoUploadRequest,
                              !.results = IF r.ok THEN r.data ELSE NoResults,
                              !.notice = IF r.ok THEN "Upload complete"
                                         ELSE Or(r.message, "Upload failed")]
    /\ UNCHANGED nonUploadVars

\* click on Cancel (enabled while no upload runs)
ClickCancel ==
    /\ ui.open
    /\ ~ui.uploading
    /\ ui' = handleClose
    /\ UNCHANGED nonUploadVars

\* click on the backdrop of the dialog, also while an upload runs
ClickBackdrop ==
    /\ ui.open
    /\ ui' = handleClose
    /\ UNCHANGED nonUploadVars

----------------------------------------------------------------------------
(* The buttons of the users list: part_000, lines 142-152 and 300-309.     *)
(* usePermissions gives a component undefined until a getPermissions call  *)
(* has resolved, and the value that call resolved with afterwards.         *)

\* what usePermissions returns: loaded is FALSE while permissions is undefined
Permissions(loaded, value) == [loaded |-> loaded, value |-> value]

\* a CustomExportButton that follows canEdit
CustomExportButton_canEdit(permissions) == permissions.loaded /\ permissions.value.canEdit

\* CustomExportButton, line 307: is the button rendered?
CustomExportButton(permissions) == permissions.loaded /\ permissions.value.canDelete

\* BulkUploadButton, line 150: is the button rendered?
BulkUploadButton(permissions) == permissions.loaded /\ permissions.value.canCreate

\* the toolbar rendered with the permissions of getPermissions call number call
Toolbar(call, permissions) ==
    [call |-> call, permissions |-> permissions,
     exportButton |-> CustomExportButton(permissions),
     bulkUploadButton |-> BulkUploadButton(permissions)]

\* the first render: usePermissions has nothing yet
InitialToolbar == Toolbar(0, Permissions(FALSE, NoPermissions))

\* usePermissions delivers what a later getPermissions call resolved with,
\* and the buttons render again
Rerender ==
    /\ \E i \in DOMAIN calls :
          /\ calls[i].op = "getPermissions"
          /\ i > toolbar.call
          /\ toolbar' = Toolbar(i, Permissions(TRUE, calls[i].permissions))
    /\ UNCHANGED nonToolbarVars

----------------------------------------------------------------------------
(* The initial state and the specifications *)


Init ==
    /\ token = NULL
    /\ accountRole = NULL
    /\ calls = <<>>
    /\ lastChange = "none"
    /\ op = Idle
    /\ reqs = <<>>
    /\ qry = NoQuery
    /\ handed = NoHanded
    /\ exp = NoExport
    /\ trip = NoTrip
    /\ ui = InitialDialog
    /\ toolbar = InitialToolbar

Next ==
    \/ LoginStart
    \/ \E i \in DOMAIN calls, resp \in LoginResponses : LoginSettle(i, resp)
    \/ Logout
    \/ CheckAuth
    \/ \E status \in ErrorStatuses : CheckError(status)
    \/ GetIdentity
    \/ GetPermissions

Spec == Init /\ [][Next]_vars

NextData ==
    \/ GetList
    \/ GetOne
    \/ GetMany
    \/ Create
    \/ Update
    \/ UpdateMany
    \/ Delete
    \/ DeleteMany
    \/ \E i \in DOMAIN reqs :
          \E answer \in AnswersFor(op.kind, reqs[i].id) : Respond(i, answer)
    \/ Return

SpecData == Init /\ [][NextData]_vars

\* a page load that finds the session of an earlier login in localStorage
InitSession ==
    /\ token = "tok1"
    /\ accountRole = "admin"
    /\ calls = <<>>
    /\ lastChange = "login"
    /\ op = Idle
    /\ reqs = <<>>
    /\ qry = NoQuery
    /\ handed = NoHanded
    /\ exp = NoExport
    /\ trip = NoTrip
    /\ ui = InitialDialog
    /\ toolbar = InitialToolbar

NextSession ==
    \/ CheckAuth
    \/ GetList
    \/ GetOne
    \/ Create
    \/ Update
    \/ Delete
    \/ \E i \in DOMAIN reqs : \E answer \in AnswersFor(op.kind, reqs[i].id) :
          Respond(i, answer)
    \/ Return
    \/ HandError

\* a stored session and the adapter together: operations, their errors
\* handed to checkError, checkAuth
SpecSession == InitSession /\ [][NextSession]_vars

NextExport ==
    \/ ExportCSV
    \/ ExportSettle
    \/ ExportTaken

SpecExport == Init /\ [][NextExport]_vars

NextTrip ==
    \/ TripCreate
    \/ TripCreated
    \/ TripGetOne
    \/ TripGot
    \/ TripReset

SpecTrip == Init /\ [][NextTrip]_vars

NextUpload ==
    \/ OpenDialog
    \/ PickFile
    \/ ClickUpload
    \/ UploadSettle
    \/ ClickCancel
    \/ ClickBackdrop

SpecUpload == Init /\ [][NextUpload]_vars

NextToolbar ==
    \/ LoginStart
    \/ \E i \in DOMAIN calls, resp \in LoginResponses : LoginSettle(i, resp)
    \/ Logout
    \/ GetPermissions
    \/ Rerender

\* sessions of any role, and the toolbar rendered from getPermissions
SpecToolbar == Init /\ [][NextToolbar]_vars

NextQuery ==
    \/ ListRequest
    \/ ReferenceRequest
    \/ QuerySent

SpecQuery == Init /\ [][NextQuery]_vars

----------------------------------------------------------------------------
(* Properties of the session store and the authProvider *)

CallsOf(o) == {i \in DOMAIN calls : calls[i].op = o}

AdminOnlyFlags(p) == {p.canCreate, p.canDelete, p.canExport, p.canImport}

\* the capability table of the access-control policy, row by row
MatchesTable(role, p) ==
    /\ role = "admin" => AdminOnlyFlags(p) = {TRUE} /\ p.canEdit
    /\ role = "corporate_admin" => AdminOnlyFlags(p) = {FALSE} /\ p.canEdit
    /\ role \notin {"admin", "corporate_admin"} =>
          AdminOnlyFlags(p) = {FALSE} /\ ~p.canEdit

\* C1: getPermissions always resolves, and what it resolves with is the row
\* of the capability table for the stored role: all five flags for admin,
\* canEdit alone for corporate_admin, none for any other or absent role.
C1_PermissionsMatchTable ==
    /\ getPermissions.st = "resolved"
    /\ MatchesTable(accountRole, getPermissions.value)
    /\ \A i \in CallsOf("getPermissions") :
          /\ calls[i].st = "resolved"
          /\ MatchesTable(calls[i].before.accountRole, calls[i].permissions)

C1_Witness ==
    \E i \in CallsOf("getPermissions") :
        /\ calls[i].before.accountRole = "corporate_admin"
        /\ calls[i].permissions.canEdit

\* C2: checkError with status 401 or 403 clears the stored token and role
\* and rejects; with any other status it resolves and leaves the stored
\* session as it was.
C2_CheckErrorClearsOnAuthFailure ==
    \A i \in CallsOf("checkError") :
        IF calls[i].status \in {401, 403}
        THEN /\ calls[i].st = "rejected"
             /\ calls[i].after = [token |-> NULL, accountRole |-> NULL]
        ELSE /\ calls[i].st = "resolved"
             /\ calls[i].after = calls[i].before

C2_Witness ==
    /\ \E i \in CallsOf("checkError") :
          calls[i].status = 403 /\ calls[i].before.token # NULL
    /\ \E i \in CallsOf("checkError") :
          calls[i].status = 500 /\ calls[i].before.token # NULL

\* C3: a token is stored iff the call that changed the session last (a
\* successful login, a logout, a checkError with 401/403, taken in the order
\* in which they wrote the store) was a successful login; and checkAuth
\* succeeds iff a token is stored.
C3_TokenIffLastChangeLogin ==
    /\ token # NULL <=> lastChange = "login"
    /\ checkAuth = "resolved" <=> token # NULL
    /\ \A i \in CallsOf("checkAuth") :
          calls[i].st = "resolved" <=> calls[i].before.token # NULL

C3_Witness ==
    /\ \E i \in CallsOf("checkAuth") : calls[i].st = "resolved"
    /\ \E i \in CallsOf("login") : calls[i].st = "resolved"
    /\ lastChange = "checkError"
    /\ token = NULL

AllSettled == \A i \in DOMAIN calls : calls[i].st # "pending"

\* the calls that wrote the session store
Writers ==
    {i \in DOMAIN calls :
        \/ calls[i].op = "logout"
        \/ calls[i].op = "login" /\ calls[i].st = "resolved"
        \/ calls[i].op = "checkError" /\ calls[i].st = "rejected"}

Last(S) == CHOOSE i \in S : \A j \in S : j <= i

\* C5: once every call has completed, the stored session is the one written
\* by the session-changing call that was invoked last, whatever the
\* interleaving (a login invoked before a logout never re-creates the session
\* after that logout).
C5_LastInvokedWriterWins ==
    (AllSettled /\ Writers # {}) => getStoredAuth = calls[Last(Writers)].after

\* C7: a login whose authentication call succeeded stored exactly the token
\* and role of the answer and resolved; a login whose authentication call
\* failed rejected with the very error of that call and left the stored
\* session as it was.
C7_LoginPersistsOrPropagates ==
    \A i \in CallsOf("login") :
        calls[i].st # "pending" =>
            IF calls[i].api.ok
            THEN /\ calls[i].st = "resolved"
                 /\ calls[i].after =
                       [token |-> calls[i].api.data.token,
                        accountRole |-> calls[i].api.data.account_role]
                 /\ calls[i].after.token \in Tokens
            ELSE /\ calls[i].st = "rejected"
                 /\ calls[i].error = calls[i].api.error
                 /\ calls[i].after = calls[i].before

C7_Witness ==
    /\ \E i \in CallsOf("login") : calls[i].st = "resolved"
    /\ \E i \in CallsOf("login") :
          /\ calls[i].st = "rejected"
          /\ calls[i].error.name = "TypeError"
          /\ calls[i].before.token # NULL

----------------------------------------------------------------------------
(* Properties of fetchJson and the dataProvider *)

Rejections == Failed(reqs)

\* C4: the error an operation of the dataProvider raises carries the status
\* of the fetchJson error that caused it.
C4_AdapterErrorKeepsStatus ==
    (op.st = "rejected" /\ Rejections # {}) =>
        op.error.status = reqs[FirstFailed(reqs)].result.error.status

\* C6: every fetchJson failure carries a status: the HTTP status when a
\* non-success response was received, 0 when no response was received; and
\* an error built with a status goes through the catch callback unchanged.
C6_FailureCarriesStatus ==
    \A i \in Rejections :
        LET answer == reqs[i].answer
            error == reqs[i].result.error
        IN /\ error.status # NoStatus
           /\ answer.kind = "http" => error.status = answer.status
           /\ answer.kind = "network" => error.status = 0
           /\ (answer.kind = "http"
                 /\ thenHandler(answer.status, answer.body).error.status # NoStatus)
              => error = thenHandler(answer.status, answer.body).error

\* C8: when a batch operation succeeds, the i-th element of its result
\* belongs to the i-th id it was given, in whatever order the responses
\* arrived.
C8_BatchResultInIdOrder ==
    (op.kind \in BatchKinds /\ op.st = "resolved") =>
        /\ Len(op.value.data) = Len(op.ids)
        /\ \A i \in DOMAIN op.ids :
              IF op.kind = "getMany"
              THEN op.value.data[i].id = op.ids[i]
              ELSE op.value.data[i] = op.ids[i]

C8_Witness ==
    /\ op.kind \in {"getMany", "updateMany"}
    /\ op.st = "resolved"
    /\ Len(op.ids) >= 2
    /\ reqs[2].order < reqs[1].order

\* C9: a batch operation succeeds iff every one of its requests succeeds;
\* when a request fails the operation fails and returns no data.
C9_BatchAllOrNothing ==
    (op.kind \in BatchKinds) =>
        /\ op.st = "resolved" <=> \A i \in DOMAIN reqs : reqs[i].st = "fulfilled"
        /\ Rejections # {} => op.st = "rejected" /\ op.value.data = <<>>

C9_Witness ==
    /\ op.kind \in BatchKinds
    /\ op.st = "rejected"
    /\ \E i \in DOMAIN reqs : reqs[i].st = "fulfilled" /\ reqs[i].order = 1

\* C10: the error fetchJson produces for a response with status 401 has the
\* fixed message, whatever the body of the response.
C10_FixedMessageOn401 ==
    \A i \in SettledRequests(reqs) :
        (reqs[i].answer.kind = "http" /\ reqs[i].answer.status = 401) =>
            reqs[i].result.error.message =
                "Authentication required. Please log in again."

----------------------------------------------------------------------------
(* Properties of the list queries *)

\* what a server reads from the query string of the request
Received ==
    IF qry.string = <<>> THEN <<>>
    ELSE parseQuery(SubSeq(qry.string, 2, Len(qry.string)))

ReceivedNames == {Received[i].name : i \in DOMAIN Received}
ReceivedValues(name) ==
    {Received[i].value : i \in {j \in DOMAIN Received : Received[j].name = name}}

\* the filter the query was built from
BuiltFrom == qry.delegated.filter.entries

\* C11: in the query string of a list request a filter key appears iff its
\* value is not null, not undefined and not the empty string.
C11_FilterKeyIffNonEmpty ==
    qry.kind = "getList" =>
        /\ \A i \in DOMAIN BuiltFrom :
              BuiltFrom[i].key \in ReceivedNames
                  <=> BuiltFrom[i].value \notin {JsNull, JsUndefined, JsString(<<>>)}
        /\ \A k \in FilterKeys :
              k \in ReceivedNames => \E i \in DOMAIN BuiltFrom : BuiltFrom[i].key = k

C11_Witness ==
    /\ qry.kind = "getList"
    /\ \E i, j \in DOMAIN BuiltFrom :
          /\ BuiltFrom[i].value = JsString(<<>>)
          /\ BuiltFrom[j].value = JsNumber(<<"0">>)
          /\ BuiltFrom[i].key \notin ReceivedNames
          /\ BuiltFrom[j].key \in ReceivedNames

\* the sort order the list contract expects for an order of the caller
ExpectedOrder(order) ==
    CASE order \in {JsString(<<"ASC">>), JsString(<<"asc">>)} -> <<"asc">>
      [] order \in {JsString(<<"DESC">>), JsString(<<"desc">>), JsString(<<"Desc">>)}
            -> <<"desc">>
      [] order \in {JsUndefined, JsNull, JsString(<<>>)} -> <<"asc">>
      [] order = JsString(<<"Random">>) -> <<"random">>

\* C12: a list request with a sort field carries sort_field=<field> and
\* sort_order = the order in lower case (asc for ASC, desc for DESC), asc
\* when no order is given; without a sort field it carries neither.
C12_SortFieldAndLowerCasedOrder ==
    qry.kind = "getList" =>
        LET sort == qry.params.sort
        IN IF sort.present /\ sort.field.t = "string" /\ sort.field.s # <<>>
           THEN /\ ReceivedValues(<<"sort_field">>) = {sort.field.s}
                /\ ReceivedValues(<<"sort_order">>) = {ExpectedOrder(sort.order)}
           ELSE /\ <<"sort_field">> \notin ReceivedNames
                /\ <<"sort_order">> \notin ReceivedNames

C12_Witness ==
    /\ qry.kind = "getList"
    /\ qry.params.sort.order = JsString(<<"ASC">>)
    /\ qry.string = <<"?", "sort_field", "=", "name", "&", "sort_order", "=", "asc">>

\* C15: getManyReference hands list the caller's filters with the key named
\* by target set to the reference id, also when the caller had a filter
\* under that key; every other filter of the caller is passed unchanged.
C15_ReferenceWinsOthersKept ==
    qry.kind = "getManyReference" =>
        LET caller == IF qry.params.filter.present
                      THEN qry.params.filter.entries ELSE <<>>
        IN /\ qry.delegated.filter.present
           /\ {BuiltFrom[i].value : i \in {j \in DOMAIN BuiltFrom :
                                              BuiltFrom[j].key = qry.target}}
                 = {qry.id}
           /\ {BuiltFrom[i] : i \in {j \in DOMAIN BuiltFrom :
                                        BuiltFrom[j].key # qry.target}}
                 = {caller[i] : i \in {j \in DOMAIN caller :
                                          caller[j].key # qry.target}}
           /\ qry.delegated.sort = qry.params.sort
           /\ qry.delegated.pagination = qry.params.pagination
           /\ qry.entries = queryParamsOf(qry.delegated)

C15_Witness ==
    /\ qry.kind = "getManyReference"
    /\ Len(BuiltFrom) = 2
    /\ \E i \in DOMAIN qry.params.filter.entries :
          /\ qry.params.filter.entries[i].key = qry.target
          /\ qry.params.filter.entries[i].value # qry.id

\* C17: whatever sort order is passed to list with a sort field, the
\* sort_order it emits is asc or desc, and an order that is neither becomes
\* desc.
C17_SortOrderAscOrDesc ==
    (qry.kind # "none" /\ <<"sort_order">> \in ReceivedNames) =>
        /\ ReceivedValues(<<"sort_order">>) \subseteq {<<"asc">>, <<"desc">>}
        /\ qry.params.sort.order = JsString(<<"Random">>)
              => ReceivedValues(<<"sort_order">>) = {<<"desc">>}

\* C18: every non-empty filter value is in the query string percent-encoded
\* once: one decoding of the query string gives the value back, under its
\* key as the caller wrote it.
C18_FilterValueEncodedOnce ==
    qry.kind = "getList" =>
        \A i \in DOMAIN BuiltFrom :
            BuiltFrom[i].value \notin {JsNull, JsUndefined, JsString(<<>>)} =>
                ReceivedValues(BuiltFrom[i].key) = {StringOf(BuiltFrom[i].value)}

----------------------------------------------------------------------------
(* Properties of the session store *)

\* are the two entries of a store present together or absent together?
Paired(store) == (store.token = NULL) <=> (store.accountRole = NULL)

\* C20: in every state reached through login, logout and checkError a token
\* is stored iff an account_role is stored, and so it is in the store each
\* of these calls leaves behind.
C20_TokenIffAccountRole ==
    /\ Paired(getStoredAuth)
    /\ \A i \in DOMAIN calls : Paired(calls[i].before) /\ Paired(calls[i].after)

C20_Witness ==
    /\ token # NULL /\ accountRole # NULL
    /\ \E i, j \in DOMAIN calls :
          /\ i < j
          /\ calls[i].op = "checkError" /\ calls[i].st = "rejected"
          /\ calls[i].before.token # NULL /\ calls[i].after.accountRole = NULL
          /\ calls[j].op = "login" /\ calls[j].st = "resolved"

----------------------------------------------------------------------------
(* Properties of a session whose operations fail *)

\* the session store with no session in it
Cleared == [token |-> NULL, accountRole |-> NULL]

\* C16: when an operation of the adapter got a response with status 401 or
\* 403 and the error it threw was handed to checkError, checkError rejects
\* and leaves the session store cleared, and every checkAuth after it
\* rejects.
C16_AuthFailureEndsSession ==
    (handed # NoHanded /\ handed.status \in {401, 403}) =>
        /\ calls[handed.call].op = "checkError"
        /\ calls[handed.call].st = "rejected"
        /\ calls[handed.call].after = Cleared
        /\ \A j \in CallsOf("checkAuth") :
              j > handed.call => calls[j].st = "rejected"

----------------------------------------------------------------------------
(* Properties of the export *)

\* is a content-type CSV-like: does it contain text/csv or
\* application/octet-stream?
CsvLike(contentType) ==
    /\ contentType.present
    /\ \E i \in DOMAIN contentType.value :
          contentType.value[i] \in {"text/csv", "application/octet-stream"}

\* C13: exportCSV gives the body of a successful response back as a blob
\* only when the content-type of the response is CSV-like; for every other
\* successful response it throws an error whose message has the first 200
\* characters of the body, and gives no blob.
C13_BlobOnlyForCsvLike ==
    (exp.st = "settled" /\ exp.response.kind = "http" /\ Ok(exp.response.status)) =>
        IF CsvLike(exp.response.contentType)
        THEN /\ exp.result.st = "resolved"
             /\ exp.result.blob = exp.response.text
        ELSE /\ exp.result.st = "rejected"
             /\ exp.result.blob = NoText
             /\ exp.result.error.text.name = exp.response.text.name
             /\ exp.result.error.text.len =
                   IF exp.response.text.len < 200 THEN exp.response.text.len ELSE 200

----------------------------------------------------------------------------
(* Properties of create followed by getOne *)

\* C14: against a backend that stores and echoes what it is sent, create
\* followed by getOne with the id of the record create returned resolves
\* with a record that has, for every field of the data given to create, the
\* value the data has.
C14_CreateThenGetOneRoundTrip ==
    trip.st = "done" =>
        /\ trip.created.st = "resolved"
        /\ trip.got.st = "resolved"
        /\ \A i \in DOMAIN trip.data :
              Get(trip.got.value.data[1], trip.data[i].key) = trip.data[i].value

C14_Witness ==
    /\ trip.st = "done"
    /\ Len(trip.records) = 2
    /\ \E i, j \in DOMAIN trip.data :
          /\ trip.data[i].value = JsNull
          /\ trip.data[j].value = JsString(<<"a", "\"">>)
    /\ Get(trip.got.value.data[1], <<"id">>) = JsNumber(<<"2">>)

----------------------------------------------------------------------------
(* Properties of the bulk upload *)

\* does the name end with the four characters .csv?
IsCsvName(name) ==
    /\ Len(name) >= 4
    /\ <<name[Len(name) - 3], name[Len(name) - 2], name[Len(name) - 1],
         name[Len(name)]>> = <<".", "c", "s", "v">>

\* C19: every upload request carries a file whose name ends with .csv, the
\* file held for upload is always such a file, and picking a file of
\* another extension leaves the file held for upload as it was.
C19_OnlyCsvUploaded ==
    /\ \A i \in DOMAIN ui.sent :
          ui.sent[i].file.present /\ IsCsvName(ui.sent[i].file.name)
    /\ ui.inflight # NoUploadRequest => IsCsvName(ui.inflight.file.name)
    /\ ui.file.present => IsCsvName(ui.file.name)
    /\ (ui.picked.present /\ ~IsCsvName(ui.picked.name)) => ui.file # ui.picked

C19_Witness ==
    /\ ui.picked = File(TRUE, <<"u", ".", "c", "s", "v", ".", "e", "x", "e">>)
    /\ ui.file = File(TRUE, <<"u", ".", "c", "s", "v">>)
    /\ ui.uploading
    /\ Len(ui.sent) = 2
    /\ ui.sent[1].file = File(TRUE, <<".", "c", "s", "v">>)

----------------------------------------------------------------------------
(* Properties of the toolbar buttons *)

\* the getPermissions call whose value the toolbar holds
Shown == calls[toolbar.call]

\* C21: whatever role is stored, the toolbar rendered from what
\* getPermissions returned shows the Export button iff the returned
\* canExport is true and the Bulk Upload button iff the returned canImport
\* is true; what it returned is the answer for the role stored at the call.
C21_ButtonsFollowCapabilities ==
    IF toolbar.call = 0
    THEN ~toolbar.exportButton /\ ~toolbar.bulkUploadButton
    ELSE /\ Shown.op = "getPermissions"
         /\ toolbar.permissions.value = Shown.permissions
         /\ toolbar.exportButton <=> Shown.permissions.canExport
         /\ toolbar.bulkUploadButton <=> Shown.permissions.canImport
         /\ toolbar.exportButton <=> Shown.before.accountRole = "admin"

C21_Witness ==
    /\ toolbar.call # 0
    /\ Shown.before.accountRole = "admin"
    /\ toolbar.exportButton /\ toolbar.bulkUploadButton
    /\ \E i \in CallsOf("getPermissions") :
          /\ i < toolbar.call
          /\ calls[i].before.accountRole = NULL
          /\ ~calls[i].permissions.canExport

====
